---- MODULE Spec2Model ----
(***************************************************************************)
(* Model of docling/cli/models.py: the `download` command of the Docling   *)
(* models helper.  One invocation of download() is modelled step by step:  *)
(* validation, logging setup, the call into download_models (an external   *)
(* collaborator that either returns a directory or raises), and the final  *)
(* report.                                                                 *)
(***************************************************************************)
EXTENDS Naturals, Sequences, FiniteSets

\* Longest explicit model list enumerated as an input.
MaxLen == 2

\* Directories: candidate --output-dir values and download_models results.
Dirs == {"cache/models", "custom/dir"}

\* Failures the external downloader may raise.
DownloaderErrors == {"NetworkError", "PermissionError"}

\* Optional[...]: None is the empty sequence, a present value v is <<v>>.
None == <<>>
Some(v) == <<v>>

----------------------------------------------------------------------------
\* class _AvailableModels(str, Enum), in declaration order (list(_AvailableModels)).
_AvailableModels ==
    << "layout", "tableformer", "code_formula", "picture_classifier",
       "smolvlm", "smoldocling", "smoldocling_mlx", "granite_vision",
       "easyocr" >>

\* The set of the members of the enumeration.
ModelIds == { _AvailableModels[i] : i \in 1..Len(_AvailableModels) }

\* Mutant: the default list also carries granite_vision.
_default_models_with_granite ==
    << "layout", "tableformer", "code_formula", "picture_classifier",
       "granite_vision", "easyocr" >>

\* Mutant: the default list lacks easyocr.
_default_models_no_easyocr ==
    << "layout", "tableformer", "code_formula", "picture_classifier" >>

\* _default_models
_default_models ==
    << "layout", "tableformer", "code_formula", "picture_classifier",
       "easyocr" >>

\* Mutant: membership looks at the first element only.
In_first_only(x, s) == Len(s) > 0 /\ s[1] = x

\* Python `x in s` on a list: some element equals x.
In(x, s) == \E i \in 1..Len(s) : s[i] = x

\* Python truthiness of `models`: None and the empty list are falsy.
Truthy(m) == m # None /\ Len(m[1]) > 0

\* Mutant: the guard tests `not all`.
BadParameter_inverted(m, a) == Truthy(m) /\ ~a

\* `if models and all: raise typer.BadParameter(...)`
BadParameter(m, a) == Truthy(m) /\ a

\* Mutant: `models if models is not None else ...`.
to_download_is_not_none(m, a) ==
    IF m # None THEN m[1]
    ELSE IF a THEN _AvailableModels ELSE _default_models

\* Mutant: the branches of the conditional expression are swapped.
to_download_swapped(m, a) ==
    IF Truthy(m) THEN m[1]
    ELSE IF a THEN _default_models ELSE _AvailableModels

\* to_download = models or (list(_AvailableModels) if all else _default_models)
to_download(m, a) ==
    IF Truthy(m) THEN m[1]
    ELSE IF a THEN _AvailableModels ELSE _default_models

\* The keyword arguments of the download_models call.
download_models_kwargs(dir, f, q, sel) ==
    [ output_dir              |-> dir,
      force                   |-> f,
      progress                |-> ~q,
      with_layout             |-> In("layout", sel),
      with_tableformer        |-> In("tableformer", sel),
      with_code_formula       |-> In("code_formula", sel),
      with_picture_classifier |-> In("picture_classifier", sel),
      with_smolvlm            |-> In("smolvlm", sel),
      with_smoldocling        |-> In("smoldocling", sel),
      with_smoldocling_mlx    |-> In("smoldocling_mlx", sel),
      with_granite_vision     |-> In("granite_vision", sel),
      with_easyocr            |-> In("easyocr", sel) ]

\* Mutant: logging is configured whatever the quiet flag says.
configures_logging_always(q) == TRUE

\* `if not quiet: logging.basicConfig(...)`
configures_logging(q) == ~q

\* typer.echo(output_dir)
echo(dir) == [ fn |-> "typer.echo", text |-> <<dir>> ]

\* typer.secho(f"\nModels downloaded into: {output_dir}.", fg="green")
secho(dir) == [ fn |-> "typer.secho", text |-> <<"Models downloaded into: ", dir, ".">> ]

\* console.print("\n", "Docling can now be configured ...", ...)
console_print(dir) ==
    [ fn   |-> "console.print",
      text |-> << "Docling can now be configured for running offline using the local artifacts.",
                  "Using the CLI:", "docling --artifacts-path=", dir, " FILE",
                  "Using Python: see the documentation at <https://docling-project.github.io/docling/usage>." >> ]

\* Mutant: the summary is printed in quiet mode too.
report_ignores_quiet(q, dir) == << secho(dir), console_print(dir) >>

\* The writes of the final `if quiet: ... else: ...`.
report(q, dir) ==
    IF q THEN << echo(dir) >>
    ELSE << secho(dir), console_print(dir) >>

----------------------------------------------------------------------------
\* All sequences over S of length at most n.
SeqUpTo(S, n) == UNION { [1..k -> S] : k \in 0..n }

\* The values of the `models` parameter: None or a list of identifiers.
ModelArgs == {None} \cup { Some(l) : l \in SeqUpTo(ModelIds, MaxLen) }

VARIABLES
    models,          \* parameter: Optional[list[_AvailableModels]]
    all,             \* parameter: bool
    quiet,           \* parameter: bool
    force,           \* parameter: bool
    output_dir,      \* parameter, rebound to the result of download_models
    pc,              \* position of the invocation
    trace,           \* the steps performed so far, in order
    calls,           \* keyword arguments of each download_models call
    logging_calls,   \* number of logging.basicConfig calls
    stdout,          \* what has been written to standard output
    dm_result,       \* outcome of download_models
    exc              \* the exception that left download(), None if none

vars == << models, all, quiet, force, output_dir, pc, trace, calls,
           logging_calls, stdout, dm_result, exc >>

params == << models, all, quiet, force >>

Init ==
    /\ models \in ModelArgs
    /\ all \in BOOLEAN
    /\ quiet \in BOOLEAN
    /\ force \in BOOLEAN
    /\ output_dir \in Dirs
    /\ pc = "validate"
    /\ trace = <<>>
    /\ calls = <<>>
    /\ logging_calls = 0
    /\ stdout = <<>>
    /\ dm_result = None
    /\ exc = None

\* if models and all: raise typer.BadParameter(...)
Validate ==
    /\ pc = "validate"
    /\ trace' = Append(trace, "validate")
    /\ IF BadParameter(models, all)
       THEN /\ pc' = "usage_error"
            /\ exc' = Some("BadParameter")
       ELSE /\ pc' = "logging"
            /\ exc' = exc
    /\ UNCHANGED << params, output_dir, calls, logging_calls, stdout, dm_result >>

\* if not quiet: logging.basicConfig(...)
SetupLogging ==
    /\ pc = "logging"
    /\ IF configures_logging(quiet)
       THEN /\ logging_calls' = logging_calls + 1
            /\ trace' = Append(trace, "logging")
       ELSE UNCHANGED << logging_calls, trace >>
    /\ pc' = "dispatch"
    /\ UNCHANGED << params, output_dir, calls, stdout, dm_result, exc >>

\* Mutant: download_models is invoked twice.
Dispatch_twice ==
    /\ pc = "dispatch"
    /\ LET kw == download_models_kwargs(output_dir, force, quiet,
                                        to_download(models, all))
       IN  calls' = calls \o << kw, kw >>
    /\ trace' = trace \o << "call", "call" >>
    /\ pc' = "in_download_models"
    /\ UNCHANGED << params, output_dir, logging_calls, stdout, dm_result, exc >>

\* to_download = ...; download_models(output_dir=..., ..., with_easyocr=...)
Dispatch ==
    /\ pc = "dispatch"
    /\ calls' = Append(calls, download_models_kwargs(output_dir, force, quiet,
                                                     to_download(models, all)))
    /\ trace' = Append(trace, "call")
    /\ pc' = "in_download_models"
    /\ UNCHANGED << params, output_dir, logging_calls, stdout, dm_result, exc >>

\* download_models returns a directory, which is bound to output_dir.
DownloaderReturns ==
    /\ pc = "in_download_models"
    /\ \E d \in Dirs :
          /\ dm_result' = Some([kind |-> "return", value |-> d])
          /\ output_dir' = d
    /\ trace' = Append(trace, "return")
    /\ pc' = "report"
    /\ UNCHANGED << params, calls, logging_calls, stdout, exc >>

\* Mutant: the failure is swallowed and the report is written.
DownloaderRaises_suppressed ==
    /\ pc = "in_download_models"
    /\ \E e \in DownloaderErrors :
          dm_result' = Some([kind |-> "raise", value |-> e])
    /\ trace' = Append(trace, "raise")
    /\ pc' = "report"
    /\ UNCHANGED << params, output_dir, calls, logging_calls, stdout, exc >>

\* download_models raises: no handler in download(), the exception leaves it.
DownloaderRaises ==
    /\ pc = "in_download_models"
    /\ \E e \in DownloaderErrors :
          /\ dm_result' = Some([kind |-> "raise", value |-> e])
          /\ exc' = Some(e)
    /\ trace' = Append(trace, "raise")
    /\ pc' = "failed"
    /\ UNCHANGED << params, output_dir, calls, logging_calls, stdout >>

\* if quiet: typer.echo(output_dir) else: typer.secho(...); console.print(...)
Report ==
    /\ pc = "report"
    /\ stdout' = stdout \o report(quiet, output_dir)
    /\ trace' = Append(trace, "output")
    /\ pc' = "done"
    /\ UNCHANGED << params, output_dir, calls, logging_calls, dm_result, exc >>

Next ==
    \/ Validate
    \/ SetupLogging
    \/ Dispatch
    \/ DownloaderReturns
    \/ DownloaderRaises
    \/ Report

Spec == Init /\ [][Next]_vars

----------------------------------------------------------------------------
\* Helpers for the properties.

\* The with_<x> keyword argument of a download_models call.
with_flag(kw, x) ==
    CASE x = "layout"             -> kw.with_layout
      [] x = "tableformer"        -> kw.with_tableformer
      [] x = "code_formula"       -> kw.with_code_formula
      [] x = "picture_classifier" -> kw.with_picture_classifier
      [] x = "smolvlm"            -> kw.with_smolvlm
      [] x = "smoldocling"        -> kw.with_smoldocling
      [] x = "smoldocling_mlx"    -> kw.with_smoldocling_mlx
      [] x = "granite_vision"     -> kw.with_granite_vision
      [] x = "easyocr"            -> kw.with_easyocr

\* The identifiers whose flag a call carries as true.
Selected(kw) == { x \in ModelIds : with_flag(kw, x) }

\* The elements of a list.
Elems(l) == { l[i] : i \in DOMAIN l }

\* Nothing observable has happened: no downloader call, no logging, no output.
NoEffects == calls = <<>> /\ logging_calls = 0 /\ stdout = <<>>

\* Some write of the output names the directory d.
Names(w, d) == \E k \in DOMAIN w.text : w.text[k] = d

\* The directory download_models returned.
ReturnedDir == dm_result[1].value

Returned == dm_result # None /\ dm_result[1].kind = "return"
Raised == dm_result # None /\ dm_result[1].kind = "raise"

----------------------------------------------------------------------------
\* C1 (as stated): whenever an explicit model list (empty or not) and the all
\* flag are both supplied, the command fails with BadParameter and nothing is
\* dispatched, logged or written.
C1_AnyListWithAllFails ==
    (models # None /\ all) =>
        /\ NoEffects
        /\ pc \in {"validate", "usage_error"}
        /\ (pc = "usage_error" => exc = Some("BadParameter"))

\* C1 (amended): whenever a non-empty explicit model list and the all flag are
\* both supplied, the command fails with BadParameter and download_models is
\* never called, logging is never configured and nothing is written.
C1_NonEmptyListWithAllFails ==
    (Truthy(models) /\ all) =>
        /\ NoEffects
        /\ pc \in {"validate", "usage_error"}
        /\ (pc = "usage_error" => exc = Some("BadParameter"))

C1_Witness ==
    (Truthy(models) /\ all /\ pc = "usage_error" /\ exc = Some("BadParameter"))

\* C2: with no model arguments and without the all flag, download_models is
\* called with exactly layout, tableformer, code_formula, picture_classifier
\* and easyocr selected and the four other flags false.
C2_DefaultSelection ==
    (~Truthy(models) /\ ~all /\ calls # <<>>) =>
        LET kw == calls[1] IN
        /\ kw.with_layout /\ kw.with_tableformer /\ kw.with_code_formula
        /\ kw.with_picture_classifier /\ kw.with_easyocr
        /\ ~kw.with_smolvlm /\ ~kw.with_smoldocling
        /\ ~kw.with_smoldocling_mlx /\ ~kw.with_granite_vision

C2_Witness == (models = None /\ ~all /\ Len(calls) = 1 /\ pc = "done")

\* C3: with the all flag and no model arguments, download_models is called
\* with every one of the nine with_<model> flags true.
C3_AllSelection ==
    (~Truthy(models) /\ all /\ calls # <<>>) =>
        LET kw == calls[1] IN
        /\ kw.with_layout /\ kw.with_tableformer /\ kw.with_code_formula
        /\ kw.with_picture_classifier /\ kw.with_smolvlm /\ kw.with_smoldocling
        /\ kw.with_smoldocling_mlx /\ kw.with_granite_vision /\ kw.with_easyocr

C3_Witness == (models = None /\ all /\ Len(calls) = 1 /\ pc = "done")

\* C4: with a non-empty list and no all flag, with_X is true exactly when X
\* occurs in the list, and every list with the same elements (any order, any
\* repetition) yields the same flags.
C4_NamedSelection ==
    (Truthy(models) /\ ~all /\ calls # <<>>) =>
        LET kw == calls[1]
            named == Elems(models[1])
        IN  /\ \A x \in ModelIds : with_flag(kw, x) <=> x \in named
            /\ \A l \in SeqUpTo(named, MaxLen) :
                  Elems(l) = named =>
                     download_models_kwargs(kw.output_dir, force, quiet,
                                            to_download(Some(l), all)) = kw

C4_Witness ==
    (/\ Truthy(models) /\ ~all /\ Len(calls) = 1
       /\ Len(models[1]) = 2
       /\ models[1][1] = "easyocr" /\ models[1][2] = "smolvlm")

\* C5: in quiet mode a finished invocation has written exactly one item, the
\* bare directory returned by download_models; nothing is written before that
\* and logging is not configured.
C5_QuietOutput ==
    quiet =>
        /\ (pc = "done" =>
               /\ Returned
               /\ stdout = << [fn |-> "typer.echo", text |-> <<ReturnedDir>>] >>)
        /\ (pc # "done" => stdout = <<>>)

C5_Witness ==
    (quiet /\ pc = "done" /\ Len(stdout) = 1
       /\ ReturnedDir # calls[1].output_dir)

\* C6: in normal mode a finished invocation has written the directory returned
\* by download_models and a usage hint; logging is configured only when quiet
\* is not set.
C6_NormalOutputAndLogging ==
    /\ (~quiet /\ pc = "done") =>
          /\ Returned
          /\ \E i \in DOMAIN stdout : Names(stdout[i], ReturnedDir)
          /\ \E i \in DOMAIN stdout :
                /\ stdout[i].fn = "console.print"
                /\ Names(stdout[i], "docling --artifacts-path=")
    /\ (quiet => logging_calls = 0)
    /\ (~quiet /\ pc \in {"dispatch", "in_download_models", "report", "done", "failed"}
          => logging_calls = 1)

C6_Witness ==
    (~quiet /\ pc = "done" /\ logging_calls = 1 /\ Len(stdout) = 2
       /\ ReturnedDir # calls[1].output_dir)

\* C7 (as stated): every identifier other than smolvlm, smoldocling and
\* smoldocling_mlx is in the default subset.
C7_DefaultIsAllButThree ==
    (~Truthy(models) /\ ~all /\ calls # <<>>) =>
        \A x \in ModelIds \ {"smolvlm", "smoldocling", "smoldocling_mlx"} :
            with_flag(calls[1], x)

\* C7 (amended): the default subset consists of the identifiers other than
\* smolvlm, smoldocling, smoldocling_mlx and granite_vision.
C7_DefaultIsAllButFour ==
    (~Truthy(models) /\ ~all /\ calls # <<>>) =>
        \A x \in ModelIds :
            with_flag(calls[1], x) <=>
               x \notin {"smolvlm", "smoldocling", "smoldocling_mlx", "granite_vision"}

C7_Witness ==
    (models = None /\ ~all /\ Len(calls) = 1 /\ ~calls[1].with_granite_vision
       /\ pc = "in_download_models")

\* C8: when download_models raises, the same exception leaves download(),
\* download_models has been called once only, and nothing has been written.
C8_FailurePropagates ==
    Raised =>
        /\ pc = "failed"
        /\ exc = Some(dm_result[1].value)
        /\ Len(calls) = 1
        /\ Len(SelectSeq(trace, LAMBDA e : e = "call")) = 1
        /\ stdout = <<>>

C8_Witness == (Raised /\ pc = "failed" /\ exc = Some("NetworkError"))

\* C9: a validated invocation runs validation, logging setup (only if not
\* quiet), one download_models call and the output write, in that order.
C9_StepOrder ==
    /\ Len(SelectSeq(trace, LAMBDA e : e = "call")) = Len(calls)
    /\ Len(calls) <= 1
    /\ \A i, j \in DOMAIN trace :
          (i < j) => ~ (trace[i] = "call" /\ trace[j] = "logging")
    /\ \A i \in DOMAIN trace :
          trace[i] = "output" => \E j \in 1..(i - 1) : trace[j] = "return"
    /\ (stdout # <<>> => \E j \in DOMAIN trace : trace[j] = "return")
    /\ (pc \in {"in_download_models", "report", "done", "failed"} => Len(calls) = 1)
    /\ (pc = "done" =>
           trace = IF quiet
                   THEN << "validate", "call", "return", "output" >>
                   ELSE << "validate", "logging", "call", "return", "output" >>)

C9_Witness ==
    (pc = "done" /\ ~quiet /\ Len(trace) = 5)

\* C10: an empty explicit list behaves like an absent one: with all it passes
\* validation and selects the nine identifiers, without all it selects the
\* default subset; and no call ever selects nothing.
C10_EmptyListLikeAbsent ==
    /\ (models = Some(<<>>)) =>
          /\ pc # "usage_error"
          /\ exc # Some("BadParameter")
          /\ (calls # <<>> =>
                 /\ Selected(calls[1]) = Elems(to_download(None, all))
                 /\ (all => Selected(calls[1]) = ModelIds)
                 /\ (~all => Selected(calls[1]) =
                        {"layout", "tableformer", "code_formula",
                         "picture_classifier", "easyocr"}))
    /\ (Truthy(models) /\ calls # <<>> => Selected(calls[1]) = Elems(models[1]))
    /\ \A i \in DOMAIN calls : Selected(calls[i]) # {}

C10_Witness ==
    (models = Some(<<>>) /\ all /\ pc = "done" /\ Selected(calls[1]) = ModelIds)

====
